---------------------------- MODULE Spec2Model ----------------------------
(***************************************************************************)
(* ToxiScan (Food Additive and E-Number Checker), main.py.                 *)
(*                                                                         *)
(* Python strings are modelled as sequences of one-character strings, so   *)
(* that lower(), strip(), substring tests and the regular expressions act  *)
(* on characters as they do in the program.  The en dash (U+2013) is the   *)
(* token EnDash, and the other characters that TLA+ strings cannot hold    *)
(* are tokens too (CodePoints).  A value whose type the program does not   *)
(* control (a decoded JSON body, and whatever is computed from one)        *)
(* carries its Python type: None, Str, Num, Bool, List, Dict.  An          *)
(* operation on a value of the wrong type yields the exception Python      *)
(* raises, which travels up to the nearest handler as the code's           *)
(* try/except blocks direct.  JSON numbers are integers here.              *)
(***************************************************************************)
EXTENDS Integers, Sequences, FiniteSets, TLC

\* ------------------------------------------------------------------------
\* Python values
\* ------------------------------------------------------------------------

\* Python values, tagged with type(x).__name__.
None == [t |-> "NoneType"]

Str(s) == [t |-> "str", v |-> s]

Num(n) == [t |-> "int", v |-> n]

Bool(b) == [t |-> "bool", v |-> b]

List(l) == [t |-> "list", v |-> l]

\* A dict is the sequence of its items, <<key, value>> pairs in the order of
\* insertion (for a decoded JSON object, the order of the document); the keys
\* are strings, no two of them equal.
Dict(items) == [t |-> "dict", v |-> items]

\* k in d, for a dict d
HasKey(d, k) == \E i \in DOMAIN d.v : d.v[i][1] = k

\* d[k], for a key k of the dict d
Item(d, k) == d.v[CHOOSE i \in DOMAIN d.v : d.v[i][1] = k][2]

\* x is None
IsNone(x) == x.t = "NoneType"

\* bool(x): None, "", [], {}, False and 0 are false, any other value is true.
Truthy(x) ==
    CASE x.t = "NoneType" -> FALSE
      [] x.t = "bool" -> x.v
      [] x.t = "int" -> x.v # 0
      [] x.t \in {"str", "list", "dict"} -> DOMAIN x.v # {}

\* An exception on its way up, with its str(e).
Raise(exc, message) == [t |-> "raise", exc |-> exc, message |-> message]

Raised(x) == "exc" \in DOMAIN x

\* type(x).__name__
TypeName(x) ==
    CASE x.t = "NoneType" -> <<"N","o","n","e","T","y","p","e">>
      [] x.t = "str" -> <<"s","t","r">>
      [] x.t = "int" -> <<"i","n","t">>
      [] x.t = "bool" -> <<"b","o","o","l">>
      [] x.t = "list" -> <<"l","i","s","t">>
      [] x.t = "dict" -> <<"d","i","c","t">>

\* x.attr where type(x) has no such attribute.
AttributeError(x, attr) ==
    Raise("AttributeError",
          <<"'">> \o TypeName(x) \o
          <<"'"," ","o","b","j","e","c","t"," ","h","a","s"," ","n","o"," ","a","t","t","r","i","b","u","t","e"," ","'">>
          \o attr \o <<"'">>)

\* d.get(k, default): only a dict has get.
Get(d, k, default) ==
    IF d.t # "dict" THEN AttributeError(d, <<"g","e","t">>)
    ELSE IF HasKey(d, k) THEN Item(d, k) ELSE default

EnDash == "EN DASH"

UpperCase ==
    <<"A","B","C","D","E","F","G","H","I","J","K","L","M","N","O","P","Q","R","S","T","U","V","W","X","Y","Z">>

LowerCase ==
    <<"a","b","c","d","e","f","g","h","i","j","k","l","m","n","o","p","q","r","s","t","u","v","w","x","y","z">>

Letters == 1..26

IsUpper(c) == \E i \in Letters : UpperCase[i] = c

IsLower(c) == \E i \in Letters : LowerCase[i] = c

IsDigit(c) == c \in {"0","1","2","3","4","5","6","7","8","9"}

\* The printable ASCII characters, in the order of their code points 32..126
\* (the grave accent as a token).
Printable ==
    << " ", "!", "\"", "#", "$", "%", "&", "'", "(", ")", "*", "+", ",", "-", ".", "/",
       "0", "1", "2", "3", "4", "5", "6", "7", "8", "9", ":", ";", "<", "=", ">", "?",
       "@", "A", "B", "C", "D", "E", "F", "G", "H", "I", "J", "K", "L", "M", "N", "O",
       "P", "Q", "R", "S", "T", "U", "V", "W", "X", "Y", "Z", "[", "\\", "]", "^", "_",
       "GRAVE ACCENT", "a", "b", "c", "d", "e", "f", "g", "h", "i", "j", "k", "l", "m", "n", "o",
       "p", "q", "r", "s", "t", "u", "v", "w", "x", "y", "z", "{", "|", "}", "~" >>

\* The other characters of the alphabet, with their code points: the ASCII
\* control characters that count as whitespace, and the characters beyond
\* ASCII, written as tokens.
CodePoints ==
    << <<"\t", 9>>, <<"\n", 10>>, <<"VT", 11>>, <<"\f", 12>>, <<"\r", 13>>,
       <<"FS", 28>>, <<"GS", 29>>, <<"RS", 30>>, <<"US", 31>>,
       <<"NEL", 133>>, <<"NBSP", 160>>, <<"OGHAM SPACE MARK", 5760>>,
       <<"EN QUAD", 8192>>, <<"EM QUAD", 8193>>, <<"EN SPACE", 8194>>, <<"EM SPACE", 8195>>,
       <<"THREE-PER-EM SPACE", 8196>>, <<"FOUR-PER-EM SPACE", 8197>>,
       <<"SIX-PER-EM SPACE", 8198>>, <<"FIGURE SPACE", 8199>>,
       <<"PUNCTUATION SPACE", 8200>>, <<"THIN SPACE", 8201>>, <<"HAIR SPACE", 8202>>,
       <<EnDash, 8211>>, <<"EM DASH", 8212>>,
       <<"LINE SEPARATOR", 8232>>, <<"PARAGRAPH SEPARATOR", 8233>>,
       <<"NARROW NBSP", 8239>>, <<"MEDIUM MATHEMATICAL SPACE", 8287>>,
       <<"IDEOGRAPHIC SPACE", 12288>> >>

\* ord(c)
Ord(c) ==
    IF \E i \in DOMAIN Printable : Printable[i] = c
    THEN 31 + (CHOOSE i \in DOMAIN Printable : Printable[i] = c)
    ELSE CodePoints[CHOOSE i \in DOMAIN CodePoints : CodePoints[i][1] = c][2]

\* The characters of the alphabet.
Alphabet ==
    {Printable[i] : i \in DOMAIN Printable} \cup {CodePoints[i][1] : i \in DOMAIN CodePoints}

\* The characters for which c.isspace() holds.
WhiteSpace ==
    {c \in Alphabet :
        Ord(c) \in (9..13) \cup (28..32) \cup {133, 160, 5760} \cup (8192..8202)
                     \cup {8232, 8233, 8239, 8287, 12288}}

\* c.isspace(), which is what \s and str.strip() go by.
IsSpace(c) == c \in WhiteSpace

LowerChar(c) == IF IsUpper(c) THEN LowerCase[CHOOSE i \in Letters : UpperCase[i] = c] ELSE c

UpperChar(c) == IF IsLower(c) THEN UpperCase[CHOOSE i \in Letters : LowerCase[i] = c] ELSE c

\* str.lower()
Lower(s) == [i \in 1..Len(s) |-> LowerChar(s[i])]

\* str.upper()
Upper(s) == [i \in 1..Len(s) |-> UpperChar(s[i])]

\* str.title(): a cased letter is upper-cased when it follows no cased letter,
\* lower-cased otherwise.
Title(s) ==
    [i \in 1..Len(s) |->
        IF i > 1 /\ (IsUpper(s[i-1]) \/ IsLower(s[i-1]))
        THEN LowerChar(s[i])
        ELSE UpperChar(s[i])]

\* str.strip()
Strip(s) ==
    LET keep == {i \in 1..Len(s) : ~IsSpace(s[i])}
    IN  IF keep = {} THEN << >>
        ELSE SubSeq(s, CHOOSE i \in keep : \A j \in keep : i <= j,
                       CHOOSE i \in keep : \A j \in keep : j <= i)

\* k in text
Contains(text, k) ==
    \E i \in 0..(Len(text) - Len(k)) : SubSeq(text, i + 1, i + Len(k)) = k

\* The first index >= i of s that holds no digit (Len(s)+1 when there is none).
RECURSIVE SkipDigits(_, _)
SkipDigits(s, i) == IF i <= Len(s) /\ IsDigit(s[i]) THEN SkipDigits(s, i + 1) ELSE i

\* The first index >= i of s that holds no whitespace.
RECURSIVE SkipSpaces(_, _)
SkipSpaces(s, i) == IF i <= Len(s) /\ IsSpace(s[i]) THEN SkipSpaces(s, i + 1) ELSE i

\* s.replace(" ", "_")
ReplaceSpaces(s) == [i \in 1..Len(s) |-> IF s[i] = " " THEN "_" ELSE s[i]]

HexDigits == <<"0","1","2","3","4","5","6","7","8","9","A","B","C","D","E","F">>

\* "%XX" for one byte.
PercentByte(b) == <<"%", HexDigits[(b \div 16) + 1], HexDigits[(b % 16) + 1]>>

\* c.encode("utf-8"), as a sequence of bytes.
Utf8(c) ==
    LET cp == Ord(c)
    IN  IF cp < 128 THEN <<cp>>
        ELSE IF cp < 2048 THEN <<192 + (cp \div 64), 128 + (cp % 64)>>
        ELSE <<224 + (cp \div 4096), 128 + ((cp \div 64) % 64), 128 + (cp % 64)>>

\* urllib.parse.quote of one character: ASCII letters, digits and "_.-~/" are
\* kept, anything else becomes the percent-encoded bytes of its UTF-8 form.
QuoteChar(c) ==
    IF IsUpper(c) \/ IsLower(c) \/ IsDigit(c) \/ c \in {"_", ".", "-", "~", "/"} THEN <<c>>
    ELSE LET bytes == Utf8(c)
         IN  IF Len(bytes) = 1 THEN PercentByte(bytes[1])
             ELSE IF Len(bytes) = 2 THEN PercentByte(bytes[1]) \o PercentByte(bytes[2])
             ELSE PercentByte(bytes[1]) \o PercentByte(bytes[2]) \o PercentByte(bytes[3])

RECURSIVE Quote(_)
Quote(s) == IF s = << >> THEN << >> ELSE QuoteChar(Head(s)) \o Quote(Tail(s))

\* ------------------------------------------------------------------------
\* Hybrid safety logic: hardcoded overrides
\* ------------------------------------------------------------------------

HighCodes ==
    { <<"e","2","5","0">>, <<"e","2","5","1">>, <<"e","2","4","9">>, <<"e","2","5","2">>,
      <<"e","1","7","1">>, <<"e","3","2","0">>, <<"e","3","2","1">>, <<"e","9","2","4">> }

ModerateCodes ==
    { <<"e","6","2","1">>, <<"e","9","5","1">>, <<"e","9","5","0">>, <<"e","1","0","2">>,
      <<"e","1","2","9">>, <<"e","1","3","3">>, <<"e","2","2","0">>, <<"e","2","1","1">> }

KNOWN_RISKS ==
    [c \in HighCodes \cup ModerateCodes |->
        IF c \in HighCodes THEN <<"h","i","g","h">> ELSE <<"m","o","d","e","r","a","t","e">>]

high_keywords ==
    { <<"c","a","r","c","i","n","o","g","e","n">>,
      <<"c","a","n","c","e","r">>,
      <<"b","a","n","n","e","d">>,
      <<"t","o","x","i","c">>,
      <<"D","N","A"," ","d","a","m","a","g","e">> }

mod_keywords ==
    { <<"h","y","p","e","r","a","c","t","i","v","i","t","y">>,
      <<"a","l","l","e","r","g","y">>,
      <<"a","s","t","h","m","a">>,
      <<"m","i","g","r","a","i","n","e">>,
      <<"i","n","t","o","l","e","r","a","n","c","e">>,
      <<"c","h","i","l","d","r","e","n">> }

\* The badge analyze_safety returns for a risk level (icons by name).
Badge(risk_level) ==
    IF Raised(risk_level) THEN risk_level
    ELSE IF risk_level = Str(<<"h","i","g","h">>)
    THEN [label |-> "High Risk / Avoid", color |-> "bg-red-600 text-white", icon |-> "warning"]
    ELSE IF risk_level = Str(<<"m","o","d","e","r","a","t","e">>)
    THEN [label |-> "Moderate Caution", color |-> "bg-yellow-500 text-black", icon |-> "raised hand"]
    ELSE [label |-> "Safe / Low Risk", color |-> "bg-emerald-600 text-white", icon |-> "check mark"]

\* code and code in KNOWN_RISKS: a list or a dict cannot be hashed.
InKnownRisks(code) ==
    IF ~Truthy(code) THEN Bool(FALSE)
    ELSE IF code.t \in {"list", "dict"} THEN Raise("TypeError", <<"u","n","h","a","s","h","a","b","l","e"," ","t","y","p","e",":"," ","'">> \o TypeName(code) \o <<"'">>)
    ELSE Bool(code.t = "str" /\ code.v \in DOMAIN KNOWN_RISKS)

\* data.get("overexposure_risk", {}).get("risk")
ApiRisk(data) ==
    LET overexposure == Get(data, <<"o","v","e","r","e","x","p","o","s","u","r","e","_","r","i","s","k">>, Dict(<< >>))
    IN  IF Raised(overexposure) THEN overexposure ELSE Get(overexposure, <<"r","i","s","k">>, None)

\* Check 1 and Check 2: the override table, else the registry's structured field.
CheckedRisk(data, code) ==
    LET known == InKnownRisks(code)
    IN  IF Raised(known) THEN known
        ELSE IF known.v THEN Str(KNOWN_RISKS[code.v])
        ELSE IF Truthy(data)
        THEN LET api_risk == ApiRisk(data)
             IN  IF Raised(api_risk) THEN api_risk
                 ELSE IF Truthy(api_risk) THEN api_risk
                 ELSE Str(<<"l","o","w">>)
        ELSE Str(<<"l","o","w">>)

\* The level the keyword lists give a text, or the level it had.
Scan(text, risk_level) ==
    IF \E k \in high_keywords : Contains(text, k) THEN Str(<<"h","i","g","h">>)
    ELSE IF \E k \in mod_keywords : Contains(text, k)
    THEN Str(<<"m","o","d","e","r","a","t","e">>)
    ELSE risk_level

\* Check 3: the keyword scan, run only while the level is still "low".
ScannedRisk(risk_level, description) ==
    IF Raised(risk_level) THEN risk_level
    ELSE IF risk_level = Str(<<"l","o","w">>) /\ Truthy(description)
    THEN IF description.t # "str" THEN AttributeError(description, <<"l","o","w","e","r">>)
         ELSE Scan(Lower(description.v), risk_level)
    ELSE risk_level

\* The keyword scan run whatever the level is.
analyze_safety_always_scan(data, code, description) ==
    LET risk_level == CheckedRisk(data, code)
    IN  IF Raised(risk_level) THEN risk_level
        ELSE IF Truthy(description) /\ description.t = "str"
        THEN LET text == Lower(description.v)
             IN  IF \E k \in high_keywords : Contains(text, k)
                 THEN Badge(Str(<<"h","i","g","h">>))
                 ELSE Badge(ScannedRisk(risk_level, description))
        ELSE Badge(ScannedRisk(risk_level, description))

analyze_safety(data, code, description) ==
    Badge(ScannedRisk(CheckedRisk(data, code), description))

synthetic ==
    { <<"p","e","t","r","o","l","e","u","m">>,
      <<"a","r","t","i","f","i","c","i","a","l">>,
      <<"s","y","n","t","h","e","t","i","c">>,
      <<"l","a","b">>,
      <<"c","h","e","m","i","c","a","l"," ","s","y","n","t","h","e","s","i","s">>,
      <<"c","o","a","l"," ","t","a","r">>,
      <<"p","r","e","s","e","r","v","a","t","i","v","e">> }

natural ==
    { <<"p","l","a","n","t">>,
      <<"e","x","t","r","a","c","t","e","d">>,
      <<"n","a","t","u","r","a","l">>,
      <<"f","r","u","i","t">>,
      <<"v","e","g","e","t","a","b","l","e">>,
      <<"f","e","r","m","e","n","t","a","t","i","o","n">>,
      <<"a","n","i","m","a","l">>,
      <<"v","i","t","a","m","i","n">>,
      <<"m","i","n","e","r","a","l">> }

analyze_origin(summary) ==
    IF ~Truthy(summary) THEN Str(<<"O","r","i","g","i","n"," ","U","n","k","n","o","w","n">>)
    ELSE IF summary.t # "str" THEN AttributeError(summary, <<"l","o","w","e","r">>)
    ELSE LET text == Lower(summary.v)
         IN  IF \E k \in synthetic : Contains(text, k)
             THEN Str(<<"S","y","n","t","h","e","t","i","c"," ","/"," ",
                        "A","r","t","i","f","i","c","i","a","l">>)
             ELSE IF \E k \in natural : Contains(text, k)
             THEN Str(<<"N","a","t","u","r","a","l"," ","O","r","i","g","i","n">>)
             ELSE Str(<<"O","r","i","g","i","n"," ","U","n","k","n","o","w","n">>)

\* ------------------------------------------------------------------------
\* Regular expressions
\* ------------------------------------------------------------------------

\* re.sub(r'^[eE]\d+\s*[-EnDash]\s*', '', name): the classes are disjoint, so the
\* greedy match is the only one.
StripPrefix(name) ==
    IF Len(name) >= 2 /\ name[1] \in {"e", "E"} /\ IsDigit(name[2])
    THEN LET sep == SkipSpaces(name, SkipDigits(name, 2))
         IN  IF sep <= Len(name) /\ name[sep] \in {"-", EnDash}
             THEN SubSeq(name, SkipSpaces(name, sep + 1), Len(name))
             ELSE name
    ELSE name

\* The separators of the input-cleaning pattern.
Separators == {"-", EnDash, "_"}

\* re.match(r"^([e]\d+)\s*[-EnDash_]\s*(.+)$", s): None, or the Match with its
\* two groups.
\* "." matches no line feed and "$" matches at the end or before one final line
\* feed; \s* takes as much whitespace as leaves (.+) a match, and (.+) as much
\* as "$" allows.
MatchCodeName(s) ==
    IF Len(s) >= 2 /\ s[1] = "e" /\ IsDigit(s[2])
    THEN LET d      == SkipDigits(s, 2)
             sep    == SkipSpaces(s, d)
             n      == Len(s)
             NoLF(p, q) == \A k \in p..q : s[k] # "\n"
             \* the end of (.+) when it starts at p, 0 when it cannot
             End(p) == IF NoLF(p, n) THEN n
                       ELSE IF s[n] = "\n" /\ p <= n - 1 /\ NoLF(p, n - 1) THEN n - 1
                       ELSE 0
             starts == {p \in (sep + 1)..n :
                          /\ \A k \in (sep + 1)..(p - 1) : IsSpace(s[k])
                          /\ End(p) # 0}
             from   == CHOOSE p \in starts : \A q \in starts : q <= p
         IN  IF sep <= n /\ s[sep] \in Separators /\ starts # {}
             THEN [t |-> "Match", code |-> SubSeq(s, 1, d - 1),
                   name |-> SubSeq(s, from, End(from))]
             ELSE None
    ELSE None

\* ------------------------------------------------------------------------
\* Input cleaning of analyze_endpoint
\* ------------------------------------------------------------------------

\* any(c.isdigit() for c in s)
AnyDigit(s) == \E i \in 1..Len(s) : IsDigit(s[i])

\* additive_taxonomy.get(query_clean): the index maps strings to strings.
Lookup(taxonomy, query_clean) ==
    IF query_clean \in DOMAIN taxonomy THEN Str(taxonomy[query_clean]) ELSE None

\* The explicit pattern tried after the index lookup instead of before it.
Normalize_index_first(query, taxonomy) ==
    LET query_clean == Strip(Lower(query))
        match       == MatchCodeName(query_clean)
        looked      == Lookup(taxonomy, query_clean)
    IN  IF Truthy(looked) THEN [e_code |-> looked, search_name |-> Str(query_clean)]
        ELSE IF ~IsNone(match)
        THEN [e_code |-> Str(match.code), search_name |-> Str(match.name)]
        ELSE [e_code |-> IF query_clean # << >> /\ query_clean[1] = "e" /\ AnyDigit(query_clean)
                         THEN Str(query_clean) ELSE looked,
              search_name |-> Str(query_clean)]

\* The (e_code, search_name) pair analyze_endpoint derives from the raw query
\* and the taxonomy index.
Normalize(query, taxonomy) ==
    LET query_clean == Strip(Lower(query))
        match       == MatchCodeName(query_clean)
        looked      == Lookup(taxonomy, query_clean)
    IN  IF ~IsNone(match)
        THEN [e_code |-> Str(match.code), search_name |-> Str(match.name)]
        ELSE [e_code |-> IF ~Truthy(looked) /\ query_clean # << >> /\ query_clean[1] = "e"
                            /\ AnyDigit(query_clean)
                         THEN Str(query_clean) ELSE looked,
              search_name |-> Str(query_clean)]

\* ------------------------------------------------------------------------
\* State
\* ------------------------------------------------------------------------

VARIABLES
    lifespan_pc,        \* where the startup load of lifespan() stands
    taxonomy_resp,      \* how the bulk fetch of lifespan() ended ("none" before)
    additive_taxonomy,  \* global dict: lower-cased code or name -> code
    taxonomy_list,      \* global list: codes and display names, in load order
    USDA_API_KEY,       \* os.getenv("USDA_API_KEY"): None or the key
    upstream,           \* "down": every provider call faults; "any": no constraint
    req,                \* the analyze_endpoint requests in flight, by slot
    ready,              \* the event loop's queue of gathered coroutines that have
                        \* not yet taken their first step: <<slot, fetcher>>
    suggestions,        \* what the last autocomplete call returned
    call                \* one call of a helper: its arguments and what it returned

vars == <<lifespan_pc, taxonomy_resp, additive_taxonomy, taxonomy_list, USDA_API_KEY, upstream, req,
          ready, suggestions, call>>

server_vars == <<lifespan_pc, taxonomy_resp, additive_taxonomy, taxonomy_list, USDA_API_KEY, upstream,
                 req, ready, suggestions>>

\* asyncio.gather makes a task of each coroutine in the order of its arguments,
\* and the event loop runs callbacks in the order they were scheduled: the four
\* first steps of one gather follow each other with nothing in between.
GatherOrder == <<"wiki", "usda", "products", "pubchem">>

\* The event loop stands between two of the four first steps of one gather.
MidFanout == ready # << >> /\ Head(ready)[2] # GatherOrder[1]

\* ------------------------------------------------------------------------
\* Bounded inputs
\* ------------------------------------------------------------------------

MaxDigits == 2

MaxSpaces == 2

MaxWords == 2

\* n copies of character c.
Rep(c, n) == [i \in 1..n |-> c]

Spaces == {Rep(" ", n) : n \in 0..MaxSpaces} \cup {<<"\t">>}

DigitRuns == {Rep("3", n) : n \in 0..MaxDigits} \cup {<<"1">>}

\* e<digits>, whitespace, separator, whitespace: well-formed and broken prefixes.
PrefixForms ==
    {h \o d \o w1 \o p \o w2 :
        h \in {<<"e">>, <<"E">>}, d \in DigitRuns, w1 \in Spaces,
        p \in {<<"-">>, <<EnDash>>, <<"_">>, << >>}, w2 \in Spaces}

NameParts ==
    { << >>, <<"a">>, <<"A","c","i","d">>, <<"a"," ","b">>, <<"a","\n","b">>, <<"-","a">>,
      <<"e","1">>, <<"e","x","t","r","a","c","t"," ","5">>, <<"7">> }

\* Raw queries: optional outer whitespace, an optional prefix, a name part.  The
\* route /api/analyze/{query} matches no empty path segment.
Queries ==
    {l \o p \o n \o t :
        l \in {<< >>, <<" ">>}, p \in PrefixForms \cup {<< >>}, n \in NameParts,
        t \in {<< >>, <<"\r","\n">>}} \ {<< >>}

\* Names handed to the prefix strip: up to two prefixes, then a name part.
Names ==
    {p1 \o p2 \o n :
        p1 \in PrefixForms \cup {<< >>},
        p2 \in {<< >>, <<"e","2","-">>, <<"E","2"," ",EnDash," ">>, <<"e","2","_">>},
        n \in {<< >>, <<"a">>, <<"a"," ","b">>}}

Fragments ==
    { <<"C","a","n","c","e","r">>, <<"B","A","N","N","E","D">>,
      <<"D","N","A"," ","d","a","m","a","g","e">>, <<"A","l","l","e","r","g","y">>,
      <<"c","h","i","l","d","r","e","n">>, <<"s","a","l","t">> }

\* Texts of up to n fragments joined by single spaces.
RECURSIVE Texts(_)
Texts(n) ==
    IF n = 0 THEN {<< >>}
    ELSE Texts(n - 1) \cup
         {IF t = << >> THEN f ELSE t \o <<" ">> \o f : t \in Texts(n - 1) \ {<< >>}, f \in Fragments}
         \cup Fragments

Descriptions == Texts(MaxWords)

\* Codes handed to analyze_safety: those of the override table, one that is
\* not overridden, the empty one, none.
Codes ==
    {Str(c) : c \in HighCodes \cup ModerateCodes \cup {<<"e","3","3","0">>, << >>}} \cup {None}

\* The values a registry names as a risk level.
RiskValues ==
    { Str(<<"h","i","g","h">>), Str(<<"m","o","d","e","r","a","t","e">>), Str(<<"l","o","w">>),
      Str(<<"e","n",":","n","o">>), Str(<< >>), None, Num(0), Num(2), Bool(TRUE), Bool(FALSE) }

\* Registry payloads (resp.json() of the additive endpoint, or None): with and
\* without the structured field, and with the field in shapes that are no dict.
RegistryPayloads ==
    { None, Dict(<< >>), List(<< >>), List(<<Num(1)>>), Str(<<"o","k">>),
      Dict(<< <<<<"o","v","e","r","e","x","p","o","s","u","r","e","_","r","i","s","k">>, Dict(<< >>)>> >>),
      Dict(<< <<<<"o","v","e","r","e","x","p","o","s","u","r","e","_","r","i","s","k">>, None>> >>),
      Dict(<< <<<<"o","v","e","r","e","x","p","o","s","u","r","e","_","r","i","s","k">>, Str(<<"h","i","g","h">>)>> >>),
      Dict(<< <<<<"d","i","s","p","l","a","y","_","n","a","m","e","_","t","r","a","n","s","l","a","t","i","o","n","s">>,
                Dict(<< <<<<"e","n">>, Str(<<"C","i","t","r","i","c"," ","a","c","i","d">>)>> >>)>> >>) }
    \cup {Dict(<< <<<<"o","v","e","r","e","x","p","o","s","u","r","e","_","r","i","s","k">>, Dict(<< <<<<"r","i","s","k">>, v>> >>)>> >>) : v \in RiskValues}

\* Descriptions handed to analyze_safety: a text, or what a summary's "extract"
\* may decode to.
DescriptionValues ==
    {Str(d) : d \in Descriptions} \cup {None, Num(0), Num(7), List(<< >>), List(<<Str(<<"a">>)>>)}

\* ------------------------------------------------------------------------
\* Helper calls
\* ------------------------------------------------------------------------

NoCall == [fn |-> "none"]

IdleServer ==
    /\ lifespan_pc = "startup"
    /\ taxonomy_resp = "none"
    /\ additive_taxonomy = << >>
    /\ taxonomy_list = << >>
    /\ USDA_API_KEY = None
    /\ upstream = "any"
    /\ req = << >>
    /\ ready = << >>
    /\ suggestions = None

InitSafety ==
    /\ IdleServer
    /\ call \in {[fn |-> "analyze_safety", pc |-> "called", data |-> d, code |-> c,
                  description |-> t, ret |-> None] :
                    d \in RegistryPayloads, c \in Codes, t \in DescriptionValues}

CallSafety ==
    /\ call.fn = "analyze_safety" /\ call.pc = "called"
    /\ call' = [call EXCEPT !.pc = "returned",
                            !.ret = analyze_safety(call.data, call.code, call.description)]
    /\ UNCHANGED server_vars

SpecSafety == InitSafety /\ [][CallSafety]_vars

InitStrip ==
    /\ IdleServer
    /\ call \in {[fn |-> "strip", pc |-> "called", name |-> s, once |-> None, twice |-> None] :
                    s \in Names}

StripOnce ==
    /\ call.fn = "strip" /\ call.pc = "called"
    /\ call' = [call EXCEPT !.pc = "stripped", !.once = StripPrefix(call.name)]
    /\ UNCHANGED server_vars

StripAgain ==
    /\ call.fn = "strip" /\ call.pc = "stripped"
    /\ call' = [call EXCEPT !.pc = "restripped", !.twice = StripPrefix(call.once)]
    /\ UNCHANGED server_vars

SpecStrip == InitStrip /\ [][StripOnce \/ StripAgain]_vars


\* ------------------------------------------------------------------------
\* Startup: lifespan() loads the taxonomy
\* ------------------------------------------------------------------------

\* key.split(':')[-1]
RECURSIVE AfterLastColon(_)
AfterLastColon(key) ==
    IF \E i \in 1..Len(key) : key[i] = ":"
    THEN AfterLastColon(SubSeq(key, 1 + (CHOOSE i \in 1..Len(key) :
                                            key[i] = ":" /\ \A j \in 1..(i-1) : key[j] # ":"),
                               Len(key)))
    ELSE key

\* 'en' in names, then names['en'].lower(): the display name as a string, None
\* when there is none, or the exception raised on the way.
EnglishName(names) ==
    CASE names.t = "dict" ->
            IF ~HasKey(names, <<"e","n">>) THEN None
            ELSE IF Item(names, <<"e","n">>).t # "str"
            THEN AttributeError(Item(names, <<"e","n">>), <<"l","o","w","e","r">>)
            ELSE Item(names, <<"e","n">>)
      [] names.t = "str" ->
            IF Contains(names.v, <<"e","n">>)
            THEN Raise("TypeError", <<"s","t","r","i","n","g"," ","i","n","d","i","c","e","s"," ","m","u","s","t"," ","b","e"," ","i","n","t","e","g","e","r","s",","," ","n","o","t"," ","'","s","t","r","'">>)
            ELSE None
      [] names.t = "list" ->
            IF \E k \in DOMAIN names.v : names.v[k] = Str(<<"e","n">>)
            THEN Raise("TypeError",
                       <<"l","i","s","t"," ","i","n","d","i","c","e","s"," ","m","u","s","t"," ","b","e"," ","i","n","t","e","g","e","r","s"," ","o","r"," ","s","l","i","c","e","s",","," ","n","o","t"," ","s","t","r">>)
            ELSE None
      [] OTHER -> Raise("TypeError", <<"a","r","g","u","m","e","n","t"," ","o","f"," ","t","y","p","e"," ","'">> \o TypeName(names)
                                   \o <<"'"," ","i","s"," ","n","o","t"," ","i","t","e","r","a","b","l","e">>)

\* The loop over data.items(): doc is the sequence of <<key, value>> pairs.
\* Returns the two globals after the loop.  An exception ends the loop where it
\* stands: the try of lifespan() encloses it.
RECURSIVE LoadEntries(_, _, _)
LoadEntries(doc, taxonomy, list) ==
    IF doc = << >> THEN [additive_taxonomy |-> taxonomy, taxonomy_list |-> list]
    ELSE LET key   == Head(doc)[1]
             value == Head(doc)[2]
             code  == Lower(AfterLastColon(key))
             tax1  == (code :> code) @@ taxonomy
             list1 == Append(list, code)
             names == Get(value, <<"n","a","m","e">>, Dict(<< >>))
             en    == IF Raised(names) THEN names ELSE EnglishName(names)
         IN  IF Raised(en) THEN [additive_taxonomy |-> tax1, taxonomy_list |-> list1]
             ELSE IF IsNone(en) THEN LoadEntries(Tail(doc), tax1, list1)
             ELSE LoadEntries(Tail(doc), (Lower(en.v) :> code) @@ tax1, Append(list1, en.v))

\* lifespan() from "data = resp.json()" on: a body that is no object has no
\* items().
LoadTaxonomy(data, taxonomy, list) ==
    IF data.t = "dict" THEN LoadEntries(data.v, taxonomy, list)
    ELSE [additive_taxonomy |-> taxonomy, taxonomy_list |-> list]

\* Bulk registry documents the taxonomy URL may serve: a well-formed one, one
\* with an entry that is no object, and one that is no object.
TaxonomyDocs ==
    << Dict(<< << <<"e","n",":","E","3","3","0">>,
                 Dict(<< <<<<"n","a","m","e">>, Dict(<< <<<<"e","n">>, Str(<<"C","i","t","r","i","c"," ","a","c","i","d">>)>>, <<<<"f","r">>, Str(<<"A","c","i","d","e">>)>> >>)>> >>) >>,
              << <<"e","n",":","e","1","5","0","a">>,
                 Dict(<< <<<<"n","a","m","e">>, Dict(<< <<<<"f","r">>, Str(<<"C","a","r","a","m","e","l">>)>> >>)>> >>) >>,
              << <<"e","2","5","0">>, Dict(<< >>) >> >>),
       Dict(<< << <<"e","n",":","e","1","0","0">>,
                 Dict(<< <<<<"n","a","m","e">>, Dict(<< <<<<"e","n">>, Str(<<"C","u","r","c","u","m","i","n">>)>> >>)>> >>) >>,
              << <<"e","n",":","e","1","0","1">>, None >>,
              << <<"e","n",":","e","1","0","2">>, Dict(<< >>) >> >>),
       List(<< >>) >>

\* Bulk documents whose index the input cleaning is tried against: none (the
\* load failed or served nothing), one whose additive names read like codes,
\* and one with a key that ends in its colon.
NormalizeDocs ==
    << Dict(<< >>),
       Dict(<< << <<"e","n",":","E","3","3">>,
                 Dict(<< <<<<"n","a","m","e">>, Dict(<< <<<<"e","n">>, Str(<<"A">>)>> >>)>> >>) >>,
              << <<"e","n",":","e","9">>,
                 Dict(<< <<<<"n","a","m","e">>, Dict(<< <<<<"e","n">>, Str(<<"E","3","-","a">>)>> >>)>> >>) >>,
              << <<"e","n",":","e","1","5","0","a">>,
                 Dict(<< <<<<"n","a","m","e">>, Dict(<< <<<<"e","n">>, Str(<<"E","1">>)>> >>)>> >>) >> >>),
       Dict(<< << <<"e","n",":">>,
                 Dict(<< <<<<"n","a","m","e">>, Dict(<< <<<<"e","n">>, Str(<<"E","1">>)>> >>)>> >>) >>,
              << <<"e","n",":","e","7">>,
                 Dict(<< <<<<"n","a","m","e">>, Dict(<< <<<<"e","n">>, Str(<<"a">>)>> >>)>> >>) >> >>) >>

\* analyze_endpoint is called after lifespan() has loaded one of the documents.
InitNormalize ==
    /\ lifespan_pc = "yielded"
    /\ taxonomy_resp = "ok"
    /\ \E d \in DOMAIN NormalizeDocs :
          LET loaded == LoadTaxonomy(NormalizeDocs[d], << >>, << >>)
          IN  /\ additive_taxonomy = loaded.additive_taxonomy
              /\ taxonomy_list = loaded.taxonomy_list
    /\ USDA_API_KEY = None
    /\ upstream = "any"
    /\ req = << >>
    /\ ready = << >>
    /\ suggestions = None
    /\ call \in {[fn |-> "normalize", pc |-> "called", query |-> q, e_code |-> None,
                  search_name |-> None] : q \in Queries}

CallNormalize ==
    /\ call.fn = "normalize" /\ call.pc = "called"
    /\ LET n == Normalize(call.query, additive_taxonomy)
       IN  call' = [call EXCEPT !.pc = "returned", !.e_code = n.e_code,
                                !.search_name = n.search_name]
    /\ UNCHANGED server_vars

SpecNormalize == InitNormalize /\ [][CallNormalize]_vars

\* What the network answers to one request: a transport fault or timeout, a
\* status other than 200, a 200 whose body resp.json() cannot decode, or 200
\* with the i-th sample payload.
Replies(up, payloads) ==
    IF up = "down" THEN {<<"fault", 0>>}
    ELSE {<<"fault", 0>>, <<"non200", 0>>, <<"invalid", 0>>}
         \cup {<<"ok", i>> : i \in DOMAIN payloads}

\* lifespan() up to "resp = await client.get(OFF_TAXONOMY_URL)".
LifespanStart ==
    /\ lifespan_pc = "startup"
    /\ lifespan_pc' = "fetching"
    /\ UNCHANGED <<taxonomy_resp, additive_taxonomy, taxonomy_list, USDA_API_KEY, upstream, req,
                   ready, suggestions, call>>

\* The rest of lifespan() up to its yield: the loop has no await in it.  The
\* taxonomy host is not one of the request-time providers.
LifespanLoad ==
    /\ lifespan_pc = "fetching"
    /\ \E reply \in Replies("any", TaxonomyDocs) :
          /\ LET loaded == LoadTaxonomy(TaxonomyDocs[reply[2]], additive_taxonomy, taxonomy_list)
             IN  IF reply[1] = "ok"
                 THEN /\ additive_taxonomy' = loaded.additive_taxonomy
                      /\ taxonomy_list' = loaded.taxonomy_list
                 ELSE UNCHANGED <<additive_taxonomy, taxonomy_list>>
          /\ taxonomy_resp' = reply[1]
    /\ lifespan_pc' = "yielded"
    /\ UNCHANGED <<USDA_API_KEY, upstream, req, ready, suggestions, call>>

\* ------------------------------------------------------------------------
\* GET /api/autocomplete
\* ------------------------------------------------------------------------

AutocompleteLimit == 10

AutocompleteInputs == { <<"A","c","i","d">> }

autocomplete_caching(q, list) == Append(list, q)

\* taxonomy_list after a call of autocomplete: the handler only reads it.
autocomplete_list(q, list) == list

autocomplete(q, list) ==
    LET q_lower == Lower(q)
        matches == SelectSeq(list, LAMBDA x : Contains(Lower(x), q_lower))
    IN  SubSeq(matches, 1, IF Len(matches) < AutocompleteLimit THEN Len(matches)
                           ELSE AutocompleteLimit)

Autocomplete ==
    /\ lifespan_pc = "yielded"
    /\ ~MidFanout
    /\ \E q \in AutocompleteInputs :
          /\ suggestions' = List(autocomplete(q, taxonomy_list))
          /\ taxonomy_list' = autocomplete_list(q, taxonomy_list)
    /\ UNCHANGED <<lifespan_pc, taxonomy_resp, additive_taxonomy, USDA_API_KEY, upstream, req, ready,
                   call>>

\* ------------------------------------------------------------------------
\* The fetchers
\* ------------------------------------------------------------------------

\* One provider call: st is "new", "waiting" (request sent, response awaited) or
\* "done"; outcome is "none", "skipped" (returned without a request), "fault",
\* "non200", "invalid" (a 200 whose body is no JSON) or "ok"; sent is what the
\* request asked for; ret what the fetcher returned.
NewCall == [st |-> "new", outcome |-> "none", sent |-> None, ret |-> None]

Sent(value) == [st |-> "waiting", outcome |-> "none", sent |-> value, ret |-> None]

Skipped(value) == [st |-> "done", outcome |-> "skipped", sent |-> None, ret |-> value]

Done(c, outcome, value) == [c EXCEPT !.st = "done", !.outcome = outcome, !.ret = value]

\* code.split(' ')[0]
FirstWord(code) ==
    IF \E i \in 1..Len(code) : code[i] = " "
    THEN SubSeq(code, 1, (CHOOSE i \in 1..Len(code) :
                             code[i] = " " /\ \A j \in 1..(i-1) : code[j] # " ") - 1)
    ELSE code

\* A code that is no string has no split(); the bare except returns None.
fetch_off_data_start(code) ==
    IF ~Truthy(code) \/ code.t # "str" THEN Skipped(None) ELSE Sent(Str(FirstWord(code.v)))

fetch_off_data_return(c, outcome, payload) ==
    Done(c, outcome, IF outcome = "ok" THEN payload ELSE None)

\* re.sub() takes a string only; the bare except returns None.
fetch_wiki_data_start(name) ==
    IF ~Truthy(name) \/ name.t # "str" THEN Skipped(None)
    ELSE Sent(Str(ReplaceSpaces(Title(Strip(StripPrefix(name.v))))))

fetch_wiki_data_return(c, outcome, payload) ==
    Done(c, outcome, IF outcome = "ok" THEN payload ELSE None)

\* The credential check left out.
fetch_usda_start_unchecked(key, name) ==
    IF ~Truthy(name) \/ name.t # "str" THEN Skipped(Bool(FALSE))
    ELSE Sent(Str(StripPrefix(name.v)))

fetch_usda_start(key, name) ==
    IF ~Truthy(key) \/ ~Truthy(name) \/ name.t # "str" THEN Skipped(Bool(FALSE))
    ELSE Sent(Str(StripPrefix(name.v)))

\* d.get("totalHits", 0) > 0 and
\* clean_name.lower() in d["foods"][0]["description"].lower(); any exception on
\* the way is caught, and the fetcher returns False.
UsdaVerified(d, clean_name) ==
    /\ d.t = "dict"
    /\ LET hits == Get(d, <<"t","o","t","a","l","H","i","t","s">>, Num(0))
       IN  \/ hits.t = "int" /\ hits.v > 0
           \/ hits.t = "bool" /\ hits.v
    /\ HasKey(d, <<"f","o","o","d","s">>)
    /\ Item(d, <<"f","o","o","d","s">>).t = "list"
    /\ Item(d, <<"f","o","o","d","s">>).v # << >>
    /\ LET food == Item(d, <<"f","o","o","d","s">>).v[1]
       IN  /\ food.t = "dict"
           /\ HasKey(food, <<"d","e","s","c","r","i","p","t","i","o","n">>)
           /\ Item(food, <<"d","e","s","c","r","i","p","t","i","o","n">>).t = "str"
           /\ Contains(Lower(Item(food, <<"d","e","s","c","r","i","p","t","i","o","n">>).v), Lower(clean_name))

fetch_usda_return(c, outcome, payload) ==
    Done(c, outcome, Bool(outcome = "ok" /\ UsdaVerified(payload, c.sent.v)))

fetch_products_start(code, name) ==
    LET q == IF Truthy(code) THEN code ELSE name
    IN  IF ~Truthy(q) THEN Skipped(List(<< >>)) ELSE Sent(q)

\* resp.json().get("products", []); a body that is no object has no get().
fetch_products_return(c, outcome, payload) ==
    Done(c, outcome, IF outcome = "ok" /\ payload.t = "dict"
                     THEN Get(payload, <<"p","r","o","d","u","c","t","s">>, List(<< >>))
                     ELSE List(<< >>))

fetch_pubchem_cid_start(name) ==
    IF ~Truthy(name) \/ name.t # "str" THEN Skipped(None)
    ELSE Sent(Str(Quote(Strip(StripPrefix(name.v)))))

\* data.get("IdentifierList", {}).get("CID", [])
Cids(data) ==
    LET identifiers == Get(data, <<"I","d","e","n","t","i","f","i","e","r","L","i","s","t">>, Dict(<< >>))
    IN  IF Raised(identifiers) THEN identifiers ELSE Get(identifiers, <<"C","I","D">>, List(<< >>))

\* cids[0]: the first element of a list, the first character of a string.
First(cids) ==
    CASE cids.t = "list" -> cids.v[1]
      [] cids.t = "str" -> Str(<<cids.v[1]>>)
      [] cids.t = "dict" -> Raise("KeyError", <<"0">>)
      [] OTHER -> Raise("TypeError", <<"'">> \o TypeName(cids) \o
                                   <<"'"," ","o","b","j","e","c","t"," ","i","s"," ","n","o","t"," ","s","u","b","s","c","r","i","p","t","a","b","l","e">>)

fetch_pubchem_cid_return(c, outcome, payload) ==
    LET cids == Cids(payload)
        cid  == IF Raised(cids) \/ ~Truthy(cids) THEN None ELSE First(cids)
    IN  Done(c, outcome, IF outcome = "ok" /\ ~Raised(cid) THEN cid ELSE None)

\* Sample provider payloads (resp.json() on a 200): of the shape the provider
\* documents, and of shapes the handler does not expect.
OffPayloads ==
    << Dict(<< >>),
       Dict(<< <<<<"d","i","s","p","l","a","y","_","n","a","m","e","_","t","r","a","n","s","l","a","t","i","o","n","s">>,
                 Dict(<< <<<<"e","n">>, Str(<<"C","i","t","r","i","c"," ","a","c","i","d">>)>> >>)>>,
               <<<<"o","v","e","r","e","x","p","o","s","u","r","e","_","r","i","s","k">>,
                 Dict(<< <<<<"r","i","s","k">>, Str(<<"l","o","w">>)>> >>)>> >>),
       Dict(<< <<<<"d","i","s","p","l","a","y","_","n","a","m","e","_","t","r","a","n","s","l","a","t","i","o","n","s">>,
                 Dict(<< <<<<"f","r">>, Str(<<"E","3","3","0"," ","-"," ","A","c","i","d","e">>)>> >>)>> >>),
       Dict(<< <<<<"d","i","s","p","l","a","y","_","n","a","m","e","_","t","r","a","n","s","l","a","t","i","o","n","s">>, None>> >>),
       Dict(<< <<<<"o","v","e","r","e","x","p","o","s","u","r","e","_","r","i","s","k">>, None>> >>),
       Dict(<< <<<<"d","i","s","p","l","a","y","_","n","a","m","e","_","t","r","a","n","s","l","a","t","i","o","n","s">>, Dict(<< <<<<"e","n">>, Num(330)>> >>)>> >>),
       List(<<Num(1)>>),
       List(<< >>) >>

WikiPayloads ==
    << Dict(<< >>),
       Dict(<< <<<<"e","x","t","r","a","c","t">>,
                 Str(<<"A"," ","n","a","t","u","r","a","l"," ","a","c","i","d"," ",
                       "b","a","n","n","e","d"," ","f","o","r"," ",
                       "c","h","i","l","d","r","e","n">>)>> >>),
       Dict(<< <<<<"e","x","t","r","a","c","t">>, None>> >>),
       Dict(<< <<<<"e","x","t","r","a","c","t">>, Num(7)>> >>),
       Dict(<< <<<<"e","x","t","r","a","c","t">>, Num(0)>> >>),
       Str(<<"o","k">>),
       List(<< >>) >>

UsdaPayloads ==
    << Dict(<< <<<<"t","o","t","a","l","H","i","t","s">>, Num(0)>> >>),
       Dict(<< <<<<"t","o","t","a","l","H","i","t","s">>, Num(1)>>,
               <<<<"f","o","o","d","s">>,
                 List(<< Dict(<< <<<<"d","e","s","c","r","i","p","t","i","o","n">>,
                                   Str(<<"C","I","T","R","I","C"," ","A","C","I","D">>)>> >>) >>)>> >>),
       Dict(<< <<<<"t","o","t","a","l","H","i","t","s">>, Num(2)>> >>),
       Dict(<< <<<<"t","o","t","a","l","H","i","t","s">>, Num(1)>>, <<<<"f","o","o","d","s">>, List(<< >>)>> >>),
       None >>

ProductPayloads ==
    << Dict(<< >>),
       Dict(<< <<<<"p","r","o","d","u","c","t","s">>,
                 List(<< Dict(<< <<<<"p","r","o","d","u","c","t","_","n","a","m","e">>, Str(<<"C","o","l","a">>)>>,
                                 <<<<"i","m","a","g","e","_","f","r","o","n","t","_","s","m","a","l","l","_","u","r","l">>,
                                   Str(<<"c",".","j","p","g">>)>> >>) >>)>> >>),
       List(<< >>) >>

PubchemPayloads ==
    << Dict(<< >>),
       Dict(<< <<<<"I","d","e","n","t","i","f","i","e","r","L","i","s","t">>, Dict(<< <<<<"C","I","D">>, List(<<Num(311), Num(99)>>)>> >>)>> >>),
       Dict(<< <<<<"I","d","e","n","t","i","f","i","e","r","L","i","s","t">>, Dict(<< <<<<"C","I","D">>, Str(<<"3","1","1">>)>> >>)>> >>),
       Dict(<< <<<<"I","d","e","n","t","i","f","i","e","r","L","i","s","t">>,
                 Dict(<< <<<<"C","I","D">>,
                           List(<< List(<< Num(1), Dict(<< <<<<"a">>, None>> >>) >>) >>)>> >>)>> >>),
       Dict(<< <<<<"I","d","e","n","t","i","f","i","e","r","L","i","s","t">>, None>> >>) >>

\* ------------------------------------------------------------------------
\* GET /api/analyze/{query}
\* ------------------------------------------------------------------------

Fetchers == {"wiki", "usda", "products", "pubchem"}

\* Queries: one that names a code of the override table, with a name, and a
\* name that the index resolves to the code e330 when it holds it.
ServerQueries ==
    { <<"E","2","5","0"," ","-"," ","S","o","d","i","u","m"," ","N","i","t","r","i","t","e">>,
      <<"C","i","t","r","i","c"," ","a","c","i","d">> }

IdleRequest ==
    [pc |-> "idle", e_code |-> None, search_name |-> None, registry |-> NewCall,
     off_data |-> None, canonical_name |-> None,
     task |-> [f \in Fetchers |-> NewCall], response |-> None]

Placeholder ==
    <<"D","e","s","c","r","i","p","t","i","o","n"," ","u","n","a","v","a","i","l","a","b","l","e",".">>

\* "Resolve Canonical Name": names.get("en", names.get("fr", search_name)); the
\* inner get is evaluated first.
CanonicalName(off_data, search_name) ==
    IF Truthy(off_data)
    THEN LET names    == Get(off_data, <<"d","i","s","p","l","a","y","_","n","a","m","e","_","t","r","a","n","s","l","a","t","i","o","n","s">>,
                                 Dict(<< >>))
             fallback == IF Raised(names) THEN names ELSE Get(names, <<"f","r">>, search_name)
         IN  IF Raised(fallback) THEN fallback ELSE Get(names, <<"e","n">>, fallback)
    ELSE search_name

\* The handler's "except Exception as e": status 500 with str(e) as the detail.
ServerError(e) == [status |-> 500, body |-> [detail |-> Str(e.message)]]

\* The request once fetch_off_data has returned: the canonical name is
\* resolved and the handler stands at "await asyncio.gather(...)", or the
\* resolution has raised and the handler has answered.
AfterRegistry(r, registry) ==
    LET canonical_name == CanonicalName(registry.ret, r.search_name)
        r1             == [r EXCEPT !.registry = registry, !.off_data = registry.ret]
    IN  IF Raised(canonical_name)
        THEN [r1 EXCEPT !.pc = "done", !.response = ServerError(canonical_name)]
        ELSE [r1 EXCEPT !.pc = "gather", !.canonical_name = canonical_name]

\* The tasks asyncio.gather schedules for request i, once r has reached it.
Gathered(i, r) ==
    IF r.pc = "gather" THEN [k \in DOMAIN GatherOrder |-> <<i, GatherOrder[k]>>] ELSE << >>

\* Input cleaning and the call of fetch_off_data.  A fetch_off_data that sends
\* nothing returns without suspending, and the handler runs on.
AnalyzeStart(i) ==
    /\ lifespan_pc = "yielded"
    /\ ~MidFanout
    /\ req[i].pc = "idle"
    /\ \E query \in ServerQueries :
          LET n        == Normalize(query, additive_taxonomy)
              r        == [req[i] EXCEPT !.e_code = n.e_code, !.search_name = n.search_name]
              registry == fetch_off_data_start(n.e_code)
          IN  IF registry.st = "done"
              THEN /\ req' = [req EXCEPT ![i] = AfterRegistry(r, registry)]
                   /\ ready' = ready \o Gathered(i, AfterRegistry(r, registry))
              ELSE /\ req' = [req EXCEPT ![i] = [r EXCEPT !.pc = "registry",
                                                          !.registry = registry]]
                   /\ UNCHANGED ready
    /\ UNCHANGED <<lifespan_pc, taxonomy_resp, additive_taxonomy, taxonomy_list, USDA_API_KEY,
                   upstream, suggestions, call>>

\* The registry answers; the handler resumes and runs on to the gather, or to
\* its except clause.
RegistryReturn(i) ==
    /\ ~MidFanout
    /\ req[i].pc = "registry"
    /\ \E reply \in Replies(upstream, OffPayloads) :
          LET r == AfterRegistry(req[i], fetch_off_data_return(req[i].registry, reply[1],
                                                               OffPayloads[reply[2]]))
          IN  /\ req' = [req EXCEPT ![i] = r]
              /\ ready' = ready \o Gathered(i, r)
    /\ UNCHANGED <<lifespan_pc, taxonomy_resp, additive_taxonomy, taxonomy_list, USDA_API_KEY,
                   upstream, suggestions, call>>

\* The next callback of the event loop is the first step of coroutine f of
\* request i.
Starting(i, f) == ready # << >> /\ Head(ready) = <<i, f>>

\* fetch_wiki_data up to its first await.
WikiStart(i) ==
    /\ Starting(i, "wiki")
    /\ req' = [req EXCEPT ![i].task["wiki"] = fetch_wiki_data_start(req[i].canonical_name)]
    /\ ready' = Tail(ready)
    /\ UNCHANGED <<lifespan_pc, taxonomy_resp, additive_taxonomy, taxonomy_list, USDA_API_KEY,
                   upstream, suggestions, call>>

\* fetch_usda up to its first await, or to its return when it sends nothing.
UsdaStart(i) ==
    /\ Starting(i, "usda")
    /\ req' = [req EXCEPT ![i].task["usda"] =
                  fetch_usda_start(USDA_API_KEY, req[i].canonical_name)]
    /\ ready' = Tail(ready)
    /\ UNCHANGED <<lifespan_pc, taxonomy_resp, additive_taxonomy, taxonomy_list, USDA_API_KEY,
                   upstream, suggestions, call>>

\* fetch_products up to its first await.
ProductsStart(i) ==
    /\ Starting(i, "products")
    /\ req' = [req EXCEPT ![i].task["products"] =
                  fetch_products_start(req[i].e_code, req[i].canonical_name)]
    /\ ready' = Tail(ready)
    /\ UNCHANGED <<lifespan_pc, taxonomy_resp, additive_taxonomy, taxonomy_list, USDA_API_KEY,
                   upstream, suggestions, call>>

\* fetch_pubchem_cid up to its first await.
PubchemStart(i) ==
    /\ Starting(i, "pubchem")
    /\ req' = [req EXCEPT ![i].task["pubchem"] =
                  fetch_pubchem_cid_start(req[i].canonical_name)]
    /\ ready' = Tail(ready)
    /\ UNCHANGED <<lifespan_pc, taxonomy_resp, additive_taxonomy, taxonomy_list, USDA_API_KEY,
                   upstream, suggestions, call>>

\* Coroutine f of request i awaits its response, and the event loop is free to
\* deliver it.
Waiting(i, f) == ~MidFanout /\ req[i].pc = "gather" /\ req[i].task[f].st = "waiting"

WikiReturn(i) ==
    /\ Waiting(i, "wiki")
    /\ \E reply \in Replies(upstream, WikiPayloads) :
          req' = [req EXCEPT ![i].task["wiki"] =
                    fetch_wiki_data_return(@, reply[1], WikiPayloads[reply[2]])]
    /\ UNCHANGED <<lifespan_pc, taxonomy_resp, additive_taxonomy, taxonomy_list, USDA_API_KEY,
                   upstream, ready, suggestions, call>>

UsdaReturn(i) ==
    /\ Waiting(i, "usda")
    /\ \E reply \in Replies(upstream, UsdaPayloads) :
          req' = [req EXCEPT ![i].task["usda"] =
                    fetch_usda_return(@, reply[1], UsdaPayloads[reply[2]])]
    /\ UNCHANGED <<lifespan_pc, taxonomy_resp, additive_taxonomy, taxonomy_list, USDA_API_KEY,
                   upstream, ready, suggestions, call>>

ProductsReturn(i) ==
    /\ Waiting(i, "products")
    /\ \E reply \in Replies(upstream, ProductPayloads) :
          req' = [req EXCEPT ![i].task["products"] =
                    fetch_products_return(@, reply[1], ProductPayloads[reply[2]])]
    /\ UNCHANGED <<lifespan_pc, taxonomy_resp, additive_taxonomy, taxonomy_list, USDA_API_KEY,
                   upstream, ready, suggestions, call>>

PubchemReturn(i) ==
    /\ Waiting(i, "pubchem")
    /\ \E reply \in Replies(upstream, PubchemPayloads) :
          req' = [req EXCEPT ![i].task["pubchem"] =
                    fetch_pubchem_cid_return(@, reply[1], PubchemPayloads[reply[2]])]
    /\ UNCHANGED <<lifespan_pc, taxonomy_resp, additive_taxonomy, taxonomy_list, USDA_API_KEY,
                   upstream, ready, suggestions, call>>

\* A join that ends with the first call to finish.
GatherReady_first(task) == \E f \in Fetchers : task[f].st = "done"

\* asyncio.gather: the await ends when all four have returned.  No fetcher lets
\* an exception out, so the gather never ends early with one.
GatherReady(task) == \A f \in Fetchers : task[f].st = "done"

\* The decimal digits of a natural number.
RECURSIVE Decimal(_)
Decimal(n) ==
    IF n < 10 THEN <<HexDigits[n + 1]>>
    ELSE Decimal(n \div 10) \o <<HexDigits[(n % 10) + 1]>>

\* The characters repr() writes as they are: the printable ASCII characters and,
\* beyond ASCII, those of the alphabet for which c.isprintable() holds.
IsPrintable(c) ==
    \/ \E i \in DOMAIN Printable : Printable[i] = c
    \/ c \in {EnDash, "EM DASH"}

LowerHexDigits == <<"0","1","2","3","4","5","6","7","8","9","a","b","c","d","e","f">>

\* The last n hexadecimal digits of cp, in lower case.
RECURSIVE Hex(_, _)
Hex(cp, n) ==
    IF n = 0 THEN << >> ELSE Hex(cp \div 16, n - 1) \o <<LowerHexDigits[(cp % 16) + 1]>>

\* One character of repr(s), for the quote q that encloses it.
ReprChar(c, q) ==
    IF c = "\\" \/ c = q THEN <<"\\", c>>
    ELSE IF c = "\t" THEN <<"\\", "t">>
    ELSE IF c = "\n" THEN <<"\\", "n">>
    ELSE IF c = "\r" THEN <<"\\", "r">>
    ELSE IF IsPrintable(c) THEN <<c>>
    ELSE IF Ord(c) < 256 THEN <<"\\", "x">> \o Hex(Ord(c), 2)
    ELSE <<"\\", "u">> \o Hex(Ord(c), 4)

RECURSIVE ReprChars(_, _)
ReprChars(s, q) ==
    IF s = << >> THEN << >> ELSE ReprChar(Head(s), q) \o ReprChars(Tail(s), q)

\* repr(s) of a string: in single quotes, unless it holds a single quote and no
\* double quote.
ReprStr(s) ==
    LET q == IF Contains(s, <<"'">>) /\ ~Contains(s, <<"\"">>) THEN "\"" ELSE "'"
    IN  <<q>> \o ReprChars(s, q) \o <<q>>

\* ", ".join(parts)
RECURSIVE Join(_)
Join(parts) ==
    IF parts = << >> THEN << >>
    ELSE IF Len(parts) = 1 THEN parts[1]
    ELSE parts[1] \o <<",", " ">> \o Join(Tail(parts))

\* repr(x)
RECURSIVE Repr(_)
Repr(x) ==
    CASE x.t = "NoneType" -> <<"N","o","n","e">>
      [] x.t = "bool" -> IF x.v THEN <<"T","r","u","e">> ELSE <<"F","a","l","s","e">>
      [] x.t = "int" -> IF x.v < 0 THEN <<"-">> \o Decimal(0 - x.v) ELSE Decimal(x.v)
      [] x.t = "str" -> ReprStr(x.v)
      [] x.t = "list" -> <<"[">> \o Join([i \in DOMAIN x.v |-> Repr(x.v[i])]) \o <<"]">>
      [] x.t = "dict" ->
            <<"{">> \o Join([i \in DOMAIN x.v |->
                                ReprStr(x.v[i][1]) \o <<":", " ">> \o Repr(x.v[i][2])])
            \o <<"}">>

\* "{}".format(x): str(x), which is x for a string and repr(x) for the rest.
Format(x) == IF x.t = "str" THEN x.v ELSE Repr(x)

\* "Image Logic": the structure image by compound id, else by quoted name;
\* urllib.parse.quote() takes a string only.
ImageUrl(pubchem_cid, canonical_name) ==
    IF Truthy(pubchem_cid) THEN [by |-> "cid", of |-> Format(pubchem_cid)]
    ELSE IF canonical_name.t # "str"
    THEN Raise("TypeError", <<"q","u","o","t","e","_","f","r","o","m","_","b","y","t","e","s","(",")"," ","e","x","p","e","c","t","e","d"," ","b","y","t","e","s">>)
    ELSE [by |-> "name", of |-> Quote(canonical_name.v)]

\* "Aggregate": the JSON body of the response, or the first exception raised
\* on the way to it.
Aggregate(r) ==
    LET wiki_data   == r.task["wiki"].ret
        description == IF Truthy(wiki_data)
                       THEN Get(wiki_data, <<"e","x","t","r","a","c","t">>, Str(Placeholder))
                       ELSE Str(Placeholder)
        safety      == analyze_safety(r.off_data, r.e_code, description)
        origin      == analyze_origin(description)
        img_url     == ImageUrl(r.task["pubchem"].ret, r.canonical_name)
    IN  IF Raised(description) THEN description
        ELSE IF Raised(safety) THEN safety
        ELSE IF Raised(origin) THEN origin
        ELSE IF Raised(img_url) THEN img_url
        ELSE IF r.canonical_name.t # "str"
        THEN AttributeError(r.canonical_name, <<"t","i","t","l","e">>)
        ELSE [identity |-> [name |-> Str(Title(r.canonical_name.v)),
                            code |-> IF Truthy(r.e_code) THEN Str(Upper(r.e_code.v))
                                     ELSE Str(<<"U","n","k","n","o","w","n">>)],
              safety |-> safety,
              origin |-> origin,
              description |-> description,
              usda_verified |-> r.task["usda"].ret,
              structure_image |-> img_url,
              products |-> r.task["products"].ret]

\* The response of the handler once the gather has returned: the body with
\* status 200, or the except clause's answer.
Response(r) ==
    LET body == Aggregate(r)
    IN  IF Raised(body) THEN ServerError(body) ELSE [status |-> 200, body |-> body]

\* The gather returns and the handler answers.
Respond(i) ==
    /\ ~MidFanout
    /\ req[i].pc = "gather"
    /\ GatherReady(req[i].task)
    /\ req' = [req EXCEPT ![i].pc = "done", ![i].response = Response(req[i])]
    /\ UNCHANGED <<lifespan_pc, taxonomy_resp, additive_taxonomy, taxonomy_list, USDA_API_KEY,
                   upstream, ready, suggestions, call>>

\* The response is sent and the request's state is dropped.
Finish(i) ==
    /\ ~MidFanout
    /\ req[i].pc = "done"
    /\ req' = [req EXCEPT ![i] = IdleRequest]
    /\ UNCHANGED <<lifespan_pc, taxonomy_resp, additive_taxonomy, taxonomy_list, USDA_API_KEY,
                   upstream, ready, suggestions, call>>

\* ------------------------------------------------------------------------
\* The server
\* ------------------------------------------------------------------------

MaxRequests == 2

ApiKeys == << None, Str(<<"k","e","y">>) >>

\* The process as it starts, with n analyze_endpoint requests possible at once.
InitServer(n, ups) ==
    /\ lifespan_pc = "startup"
    /\ taxonomy_resp = "none"
    /\ additive_taxonomy = << >>
    /\ taxonomy_list = << >>
    /\ \E k \in DOMAIN ApiKeys : USDA_API_KEY = ApiKeys[k]
    /\ upstream \in ups
    /\ req = [i \in 1..n |-> IdleRequest]
    /\ ready = << >>
    /\ suggestions = None
    /\ call = NoCall

Next ==
    \/ LifespanStart
    \/ LifespanLoad
    \/ Autocomplete
    \/ \E i \in DOMAIN req : AnalyzeStart(i)
    \/ \E i \in DOMAIN req : RegistryReturn(i)
    \/ \E i \in DOMAIN req : WikiStart(i)
    \/ \E i \in DOMAIN req : UsdaStart(i)
    \/ \E i \in DOMAIN req : ProductsStart(i)
    \/ \E i \in DOMAIN req : PubchemStart(i)
    \/ \E i \in DOMAIN req : WikiReturn(i)
    \/ \E i \in DOMAIN req : UsdaReturn(i)
    \/ \E i \in DOMAIN req : ProductsReturn(i)
    \/ \E i \in DOMAIN req : PubchemReturn(i)
    \/ \E i \in DOMAIN req : Respond(i)
    \/ \E i \in DOMAIN req : Finish(i)

\* One request at a time, against providers that may answer anything.
Init == InitServer(1, {"any"})

Spec == Init /\ [][Next]_vars

\* Concurrent requests, against providers that cannot be reached.
InitIndex == InitServer(MaxRequests, {"down"})

SpecIndex == InitIndex /\ [][Next]_vars

\* ------------------------------------------------------------------------
\* Claims about analyze_safety (SpecSafety)
\* ------------------------------------------------------------------------

Returned(fn) == call.fn = fn /\ call.pc = "returned"

\* The registry payload of the call carries a structured risk field: an
\* overexposure_risk object with a risk that is not empty.
HasStructuredRisk ==
    /\ call.data.t = "dict"
    /\ HasKey(call.data, <<"o","v","e","r","e","x","p","o","s","u","r","e","_","r","i","s","k">>)
    /\ Item(call.data, <<"o","v","e","r","e","x","p","o","s","u","r","e","_","r","i","s","k">>).t = "dict"
    /\ HasKey(Item(call.data, <<"o","v","e","r","e","x","p","o","s","u","r","e","_","r","i","s","k">>), <<"r","i","s","k">>)
    /\ Truthy(Item(Item(call.data, <<"o","v","e","r","e","x","p","o","s","u","r","e","_","r","i","s","k">>), <<"r","i","s","k">>))

\* The registry payload of the call carries the field overexposure_risk.risk
\* with a value, whatever the value is.
CarriesStructuredRisk ==
    /\ call.data.t = "dict"
    /\ HasKey(call.data, <<"o","v","e","r","e","x","p","o","s","u","r","e","_","r","i","s","k">>)
    /\ Item(call.data, <<"o","v","e","r","e","x","p","o","s","u","r","e","_","r","i","s","k">>).t = "dict"
    /\ HasKey(Item(call.data, <<"o","v","e","r","e","x","p","o","s","u","r","e","_","r","i","s","k">>), <<"r","i","s","k">>)
    /\ ~IsNone(Item(Item(call.data, <<"o","v","e","r","e","x","p","o","s","u","r","e","_","r","i","s","k">>), <<"r","i","s","k">>))

StructuredRisk == Item(Item(call.data, <<"o","v","e","r","e","x","p","o","s","u","r","e","_","r","i","s","k">>), <<"r","i","s","k">>)

\* The registry payload of the call is absent, or an object whose
\* overexposure_risk, if it has one, is an object.
RegistryAsDocumented ==
    \/ IsNone(call.data)
    \/ /\ call.data.t = "dict"
       /\ HasKey(call.data, <<"o","v","e","r","e","x","p","o","s","u","r","e","_","r","i","s","k">>)
              => Item(call.data, <<"o","v","e","r","e","x","p","o","s","u","r","e","_","r","i","s","k">>).t = "dict"

IsText(x) == x.t = "str"

Overridden == IsText(call.code) /\ call.code.v \in HighCodes \cup ModerateCodes

\* Case-insensitive presence of a term in the description.
Mentions(description, terms) ==
    \E k \in terms : Contains(Lower(description), Lower(k))

HighBadge ==
    [label |-> "High Risk / Avoid", color |-> "bg-red-600 text-white", icon |-> "warning"]

ModerateBadge ==
    [label |-> "Moderate Caution", color |-> "bg-yellow-500 text-black", icon |-> "raised hand"]

LowBadge ==
    [label |-> "Safe / Low Risk", color |-> "bg-emerald-600 text-white", icon |-> "check mark"]

\* C1: for a code of the override table, whatever the registry payload and the
\* description are, analyze_safety returns the badge of the level the table
\* holds for the code.
C1_OverrideAuthoritative ==
    (Returned("analyze_safety") /\ Overridden)
        => call.ret = IF call.code.v \in HighCodes THEN HighBadge ELSE ModerateBadge

\* An overridden moderate code keeps its badge against a structured "high" and a
\* description that names a high-severity term.
C1_Witness ==
    /\ Returned("analyze_safety")
    /\ call.code = Str(<<"e","6","2","1">>)
    /\ HasStructuredRisk /\ StructuredRisk = Str(<<"h","i","g","h">>)
    /\ IsText(call.description)
    /\ Mentions(call.description.v, {<<"c","a","n","c","e","r">>})
    /\ call.ret = ModerateBadge

\* C6: without an override, a structured risk field decides the badge for every
\* description text: the badge is that of the field's value, and the keyword
\* scan of the description neither raises nor changes it.
C6_StructuredVerbatim ==
    (Returned("analyze_safety") /\ ~Overridden /\ CarriesStructuredRisk
        /\ IsText(call.description))
        => call.ret = Badge(StructuredRisk)

\* C7: with neither an override nor a structured field, the badge is high when
\* the description text names a high-severity term in any letter case, else
\* moderate when it names a moderate-severity term, else low.
C7_KeywordScan ==
    (Returned("analyze_safety") /\ ~Overridden /\ ~HasStructuredRisk /\ RegistryAsDocumented
        /\ IsText(call.description))
        => call.ret = IF Mentions(call.description.v, high_keywords) THEN HighBadge
                      ELSE IF Mentions(call.description.v, mod_keywords) THEN ModerateBadge
                      ELSE LowBadge

\* ------------------------------------------------------------------------
\* Claims about the input cleaning (SpecNormalize)
\* ------------------------------------------------------------------------

query_clean == Strip(Lower(call.query))

\* s reads e<digits> up to i.
CodeEndsAt(s, i) == s[1] = "e" /\ \A m \in 2..i : IsDigit(s[m])

\* After the code that ends at i, s reads whitespace and a separator at j.
SeparatorAt(s, i, j) ==
    s[j] \in {"-", EnDash, "_"} /\ \A m \in (i+1)..(j-1) : IsSpace(s[m])

\* After the separator at j, s reads whitespace and a name from k to its end.
NameStartsAt(s, j, k) == ~IsSpace(s[k]) /\ \A m \in (j+1)..(k-1) : IsSpace(s[m])

\* The name that starts at k holds no line feed.
OneLine(s, k) == \A m \in k..Len(s) : s[m] # "\n"

\* The call returned s up to i as the code and s from k as the name.
SplitAt(s, i, k) ==
    /\ call.e_code = Str(SubSeq(s, 1, i))
    /\ call.search_name = Str(SubSeq(s, k, Len(s)))

\* C4 as stated: a query of the form e<digits>, whitespace, separator,
\* whitespace, non-empty name is split into exactly the code and the name.
C4_ExplicitSplitAnyName ==
    Returned("normalize") =>
        LET s == query_clean
        IN  \A i \in 2..Len(s) : CodeEndsAt(s, i) =>
                \A j \in (i+1)..Len(s) : SeparatorAt(s, i, j) =>
                    \A k \in (j+1)..Len(s) : NameStartsAt(s, j, k) => SplitAt(s, i, k)

\* C4 amended: a query of the form e<digits>, whitespace, separator,
\* whitespace, non-empty name without a line feed is split into exactly the
\* code and the name, also when the whole string is a key of the taxonomy
\* index.
C4_ExplicitSplit ==
    Returned("normalize") =>
        LET s == query_clean
        IN  \A i \in 2..Len(s) : CodeEndsAt(s, i) =>
                \A j \in (i+1)..Len(s) : SeparatorAt(s, i, j) =>
                    \A k \in (j+1)..Len(s) :
                        (NameStartsAt(s, j, k) /\ OneLine(s, k)) => SplitAt(s, i, k)

\* A query of the form that is also a key of the index, split by the pattern.
C4_Witness ==
    /\ Returned("normalize")
    /\ query_clean = <<"e","3","-","a">>
    /\ query_clean \in DOMAIN additive_taxonomy
    /\ call.e_code = Str(<<"e","3">>)
    /\ call.search_name = Str(<<"a">>)

IsECode(s) == Len(s) >= 2 /\ s[1] = "e" /\ \A m \in 2..Len(s) : IsDigit(s[m])

\* C5: after the input cleaning the name is not empty and the code, when there
\* is one, is e<digits>; a query that is no key of the index becomes a code
\* only if it starts with "e" and a digit.
C5_NameAndCodeShape ==
    Returned("normalize") =>
        /\ IsText(call.search_name) /\ call.search_name.v # << >>
        /\ ~IsNone(call.e_code) => (IsText(call.e_code) /\ IsECode(call.e_code.v))
        /\ (~IsNone(call.e_code) /\ query_clean \notin DOMAIN additive_taxonomy)
              => (Len(query_clean) >= 2 /\ query_clean[1] = "e" /\ IsDigit(query_clean[2]))

\* ------------------------------------------------------------------------
\* Claims about the prefix strip (SpecStrip)
\* ------------------------------------------------------------------------

\* C8: stripping the prefix twice gives what stripping it once gives.
C8_StripIdempotent ==
    (call.fn = "strip" /\ call.pc = "restripped") => call.twice = call.once

\* ------------------------------------------------------------------------
\* Claims about analyze_endpoint (Spec)
\* ------------------------------------------------------------------------

Answered(i) == req[i].pc = "done"

\* C2: when all four fan-out calls fail or time out, the request is answered
\* with status 200, the placeholder description, an unknown origin and
\* usda_verified false.
C2_AllProvidersFail ==
    \A i \in DOMAIN req :
        (Answered(i) /\ \A f \in Fetchers : req[i].task[f].outcome = "fault")
            => /\ req[i].response.status = 200
               /\ req[i].response.body.description = Str(Placeholder)
               /\ req[i].response.body.origin = Str(<<"O","r","i","g","i","n"," ","U","n","k","n","o","w","n">>)
               /\ req[i].response.body.usda_verified = Bool(FALSE)

\* Each of the four fan-out calls of request i has run to its own end.
AllJoined(i) ==
    \A f \in Fetchers :
        /\ req[i].task[f].st = "done"
        /\ req[i].task[f].outcome \in {"skipped", "fault", "non200", "invalid", "ok"}

\* No fan-out call of request i has started before its registry call has
\* completed.
RegistryFirst(i) ==
    (\E f \in Fetchers : req[i].task[f].st # "new") => req[i].registry.st = "done"

\* Request i was answered from the handler's except clause before the fan-out:
\* the registry's body made the resolution of the canonical name raise.
FailedBeforeFanout(i) ==
    /\ req[i].response.status = 500
    /\ req[i].registry.outcome = "ok"
    /\ Raised(CanonicalName(req[i].off_data, req[i].search_name))
    /\ \A f \in Fetchers : req[i].task[f] = NewCall

\* C3 as stated: no fan-out call has started before the registry call has
\* completed, and a request is answered only when each of the four fan-out
\* calls has run to its own end, whatever that end was.
C3_RegistryThenJoin ==
    \A i \in DOMAIN req :
        /\ RegistryFirst(i)
        /\ req[i].response # None => AllJoined(i)

\* C3 amended: no fan-out call has started before the registry call has
\* completed, and a request is answered only when each of the four fan-out
\* calls has run to its own end, whatever that end was, or, with status 500 and
\* no fan-out call made, when the registry's body made the resolution of the
\* canonical name raise.
C3_RegistryThenJoinOrFail ==
    \A i \in DOMAIN req :
        /\ RegistryFirst(i)
        /\ req[i].response # None => (AllJoined(i) \/ FailedBeforeFanout(i))

\* A request answered after a registry hit, with one fan-out call failed,
\* one refused and two successful.
C3_Witness ==
    \E i \in DOMAIN req :
        /\ Answered(i) /\ req[i].response.status = 200
        /\ req[i].registry.outcome = "ok"
        /\ req[i].task["wiki"].outcome = "fault"
        /\ req[i].task["usda"].outcome = "ok"
        /\ req[i].task["products"].outcome = "non200"
        /\ req[i].task["pubchem"].outcome = "ok"

\* With USDA_API_KEY unset, fetch_usda of request i sends no request and
\* returns False.
UsdaNeverSent(i) ==
    /\ IsNone(req[i].task["usda"].sent)
    /\ req[i].task["usda"].st # "waiting"
    /\ req[i].task["usda"].st = "done" =>
          (req[i].task["usda"].outcome = "skipped" /\ req[i].task["usda"].ret = Bool(FALSE))

IsObject(x) == x.t = "dict"

\* The registry's body of request i is one the handler fails on.  It is not
\* empty (not null, false, 0, "", [] or {}), and: it is no object; or its
\* display_name_translations is no object; or the English name in there, or
\* without one the French name, is no string; or its overexposure_risk is no
\* object while the code is not one of the override table.
RegistryBodyMisread(i) ==
    LET off_data == req[i].off_data
    IN  /\ Truthy(off_data)
        /\ \/ ~IsObject(off_data)
           \/ /\ HasKey(off_data, <<"d","i","s","p","l","a","y","_","n","a","m","e","_","t","r","a","n","s","l","a","t","i","o","n","s">>)
              /\ LET names == Item(off_data, <<"d","i","s","p","l","a","y","_","n","a","m","e","_","t","r","a","n","s","l","a","t","i","o","n","s">>)
                 IN  \/ ~IsObject(names)
                     \/ HasKey(names, <<"e","n">>) /\ ~IsText(Item(names, <<"e","n">>))
                     \/ /\ ~HasKey(names, <<"e","n">>)
                        /\ HasKey(names, <<"f","r">>)
                        /\ ~IsText(Item(names, <<"f","r">>))
           \/ /\ HasKey(off_data, <<"o","v","e","r","e","x","p","o","s","u","r","e","_","r","i","s","k">>)
              /\ ~IsObject(Item(off_data, <<"o","v","e","r","e","x","p","o","s","u","r","e","_","r","i","s","k">>))
              /\ ~(IsText(req[i].e_code)
                     /\ req[i].e_code.v \in HighCodes \cup ModerateCodes)

\* The encyclopedia's body of request i is one the handler fails on.  It is not
\* empty, and: it is no object; or its extract is not empty and is no string.
SummaryBodyMisread(i) ==
    LET wiki_data == req[i].task["wiki"].ret
    IN  /\ Truthy(wiki_data)
        /\ \/ ~IsObject(wiki_data)
           \/ /\ HasKey(wiki_data, <<"e","x","t","r","a","c","t">>)
              /\ Truthy(Item(wiki_data, <<"e","x","t","r","a","c","t">>))
              /\ ~IsText(Item(wiki_data, <<"e","x","t","r","a","c","t">>))

IndexLoadedFirst ==
    /\ lifespan_pc # "yielded" =>
          (IsNone(suggestions) /\ \A i \in DOMAIN req : req[i] = IdleRequest)
    /\ (lifespan_pc = "yielded" /\ taxonomy_resp # "ok") =>
          (additive_taxonomy = << >> /\ taxonomy_list = << >>)

\* Once the load has ended no step changes the index.
IndexReadOnly ==
    lifespan_pc = "yielded" =>
        (additive_taxonomy' = additive_taxonomy /\ taxonomy_list' = taxonomy_list)

\* C10: the index is written by the startup load alone: no request is handled
\* before the load has ended, no handler changes the index afterwards, and a
\* load that met a non-200 status or a transport fault leaves it empty.
C10_IndexWrittenAtStartupOnly == []IndexLoadedFirst /\ [][IndexReadOnly]_vars

\* After a failed load, one request is answered while another is in flight.
C10_Witness ==
    /\ lifespan_pc = "yielded" /\ taxonomy_resp = "fault"
    /\ additive_taxonomy = << >>
    /\ ~IsNone(suggestions)
    /\ \E i, j \in DOMAIN req :
          /\ Answered(i) /\ req[i].response.status = 200
          /\ req[j].pc = "gather"

=============================================================================
